---- MODULE Spec2Model ----
(***************************************************************************)
(* Model of ml/prepare-data.cc: the tool that cuts raw 8-channel S32LE     *)
(* microphone recordings into fixed-size training chunks.                  *)
(*                                                                         *)
(* A recording is far too long to enumerate sample by sample (the          *)
(* calibration window alone is 192000 words), so buffers are held          *)
(* run-length encoded: a window is a sequence of runs [n, v] (n copies of  *)
(* the sample v), a chunk is a sequence of runs [n, fr] (n copies of the   *)
(* 8-sample frame fr).  Every operator below computes on the runs exactly  *)
(* what the code computes on the expanded array.                           *)
(***************************************************************************)
EXTENDS Integers, Sequences, FiniteSets, TLC

\* ------------------------------------------------------------------------
\* Program constants (prepare-data.cc:34-53)
NCHANNELS == 8
BITS_PER_SAMPLE == 32
SAMPLES_PER_SECOND == 24000
\* INITIAL_SKIP_S = 0.5 and SILENCE_TRAINING_S = 1.0, in milliseconds
INITIAL_SKIP_MS == 500
SILENCE_TRAINING_MS == 1000
\* VALID_SAMPLE_THRESHOLD = 1.1f.  The float nearest to 1.1 is exactly
\* 9227469 / 2^23 = 1 + 838861 / 2^23; 838861 = 819 * 2^10 + 205.
THRESHOLD_FRAC_HI == 819
THRESHOLD_FRAC_LO == 205
VALID_SAMPLES_PERCENT == 10
OUT_NSAMPLES == 512
OUT_DATASET_NWORDS == OUT_NSAMPLES * NCHANNELS
OUT_DROP_PERCENT == 95

\* int32_t range
INT32_MAX == (2^(BITS_PER_SAMPLE - 2) - 1) * 2 + 1
INT32_MIN == (-INT32_MAX) - 1

\* ------------------------------------------------------------------------
\* Bounds of the model
\* most full chunks that follow the calibration window in a recording
MaxChunks == 2
\* most input files (both glob expansions together) in one run
MaxFiles == 2

\* ------------------------------------------------------------------------
\* Integer helpers that stay inside TLC's 32-bit integers.

\* -labs(a): labs() is computed in long, where labs(INT32_MIN) = 2^31 does
\* not fit an int32; its negation always does.
NegLabs(a) == IF a > 0 THEN -a ELSE a

\* int32_cmp_abs(a, b): std::labs(a) < std::labs(b)
int32_cmp_abs(a, b) == NegLabs(a) > NegLabs(b)

\* Does the int32 subtraction a - b overflow (undefined behaviour)?
SubOverflows(a, b) ==
    IF b >= 0 THEN a < INT32_MIN + b ELSE a > INT32_MAX + b

\* a - b reduced modulo 2^32 into the int32 range.
WrapSub(a, b) ==
    IF ~SubOverflows(a, b) THEN a - b
    ELSE IF b >= 0 THEN ((a - INT32_MIN) + (INT32_MAX - b)) + 1
    ELSE ((a - INT32_MAX) + (INT32_MIN - b)) - 1

\* secs2offs(): off_t(floor(SAMPLES_PER_SECOND * nsecs)) * NCHANNELS
secs2offs(ms) == ((SAMPLES_PER_SECOND * ms) \div 1000) * NCHANNELS

silence_scan_i == secs2offs(INITIAL_SKIP_MS)
data_scan_i == silence_scan_i + secs2offs(SILENCE_TRAINING_MS)
chunk_len == OUT_NSAMPLES * NCHANNELS

\* nvals_threshold = int(double(chunk_len) * VALID_SAMPLES_PERCENT / 100.0):
\* the conversion to int truncates 409.6 to 409.
nvals_threshold == (chunk_len * VALID_SAMPLES_PERCENT) \div 100

\* ------------------------------------------------------------------------
\* Silence calibration (process_raw_audio_file, lines 307-309)

\* std::max_element(first, last, int32_cmp_abs) over a run-length encoded
\* window: the first element that no later element beats.
RECURSIVE max_element_from(_, _, _)
max_element_from(win, k, best) ==
    IF k > Len(win) THEN best
    ELSE max_element_from(win, k + 1,
                          IF int32_cmp_abs(best, win[k].v) THEN win[k].v ELSE best)

max_element(win) == max_element_from(win, 2, win[1].v)

\* const int32_t silence_max = std::labs(*max_element(...)): the long
\* result 2^31 of labs(INT32_MIN) is narrowed back to INT32_MIN.
silence_max_of(win) ==
    LET e == max_element(win)
    IN  IF e = INT32_MIN THEN INT32_MIN ELSE -NegLabs(e)

\* p * 838861, as floor(p * 838861 / 2^23) and the remainder below 2^23,
\* by long multiplication in base 2^10.
MulFrac(p) ==
    LET p0 == p % 1024
        p1 == (p \div 1024) % 1024
        p2 == p \div 1048576
        c0 == p0 * THRESHOLD_FRAC_LO
        c1 == p0 * THRESHOLD_FRAC_HI + p1 * THRESHOLD_FRAC_LO
        c2 == p1 * THRESHOLD_FRAC_HI + p2 * THRESHOLD_FRAC_LO
        c3 == p2 * THRESHOLD_FRAC_HI
        s1 == c1 + (c0 \div 1024)
        s2 == c2 + (s1 \div 1024)
        t  == s2 + c3 * 1024
    IN  [hi |-> t \div 8,
         lo |-> (t % 8) * 1048576 + (s1 % 1024) * 1024 + (c0 % 1024)]

\* What a build yields for a double -> int32 conversion whose value is out
\* of range (undefined behaviour): the x86 "integer indefinite" value, or
\* the saturated value of targets that saturate a positive overflow.
FloatToIntUB == {INT32_MIN, INT32_MAX}

\* const int32_t silence_threshold = double(silence_max) * 1.1f: the
\* values the conversion can produce.  The product is exact below 2^53;
\* between 2^53 and 2^54 it is rounded to even, which carries into the
\* integer part only when the remainder is 2^23 - 1.
silence_threshold_of(smax) ==
    IF smax < 0 THEN FloatToIntUB
    ELSE LET f == MulFrac(smax)
         IN  IF f.hi > INT32_MAX - smax THEN FloatToIntUB
             ELSE LET ip == smax + f.hi
                      up == ip >= 1073741824 /\ f.lo = 8388607
                  IN  IF up /\ ip = INT32_MAX THEN FloatToIntUB
                      ELSE {ip + (IF up THEN 1 ELSE 0)}

\* ------------------------------------------------------------------------
\* Chunk classification (process_raw_audio_file, lines 331-339)

\* cmp_to_threshold: std::labs(val) >= silence_threshold
cmp_to_threshold(val, thr) == IF thr <= 0 THEN TRUE ELSE NegLabs(val) <= -thr

RECURSIVE count_if_from(_, _, _)
count_if_from(chunk, k, thr) ==
    IF k > Len(chunk) THEN 0
    ELSE chunk[k].n * Cardinality({c \in 1..NCHANNELS : cmp_to_threshold(chunk[k].fr[c], thr)})
         + count_if_from(chunk, k + 1, thr)

\* std::count_if(chunk, chunk + chunk_len, cmp_to_threshold)
count_if(chunk, thr) == count_if_from(chunk, 1, thr)

\* const bool is_silence = (nvals >= nvals_threshold)
is_silence_of(nvals) == nvals >= nvals_threshold

\* ------------------------------------------------------------------------
\* Channel transform (dataset_output::save_chunk, lines 238-248)

\* for (chi = 0; chi < NCHANNELS; chi++)
\*     data[si + (chi + mic_offs) % NCHANNELS] = arr[si + chi];
RECURSIVE rotate_from(_, _, _, _)
rotate_from(data, fr, chi, mic) ==
    IF chi = NCHANNELS THEN data
    ELSE rotate_from([data EXCEPT ![((chi + mic) % NCHANNELS) + 1] = fr[chi + 1]],
                     fr, chi + 1, mic)

\* data[] starts uninitialised
rotate(fr, mic) == rotate_from([c \in 1..NCHANNELS |-> "uninit"], fr, 0, mic)

\* for (chi = 1; chi < NCHANNELS; chi++) data[si + chi] -= data[si];
\* with the subtraction wrapping
normalize(d) == [c \in 1..NCHANNELS |-> IF c = 1 THEN d[1] ELSE WrapSub(d[c], d[1])]

\* some subtraction of the frame overflows int32
normalize_overflows(d) == \E c \in 2..NCHANNELS : SubOverflows(d[c], d[1])

\* the Variant of a chunk for rotation offset mic
variant(chunk, mic) ==
    [k \in 1..Len(chunk) |-> [n |-> chunk[k].n, fr |-> normalize(rotate(chunk[k].fr, mic))]]

variant_overflows(chunk, mic) ==
    \E k \in 1..Len(chunk) : normalize_overflows(rotate(chunk[k].fr, mic))

\* What a build does at a signed overflow (undefined behaviour): wrap, or
\* trap and end the process (-ftrapv, the sanitizers).
SignedOverflowUB == {"wrap", "trap"}

\* ------------------------------------------------------------------------
\* Inputs: frames, chunks, windows, recordings, files

Frame(a, b, c, d, e, f, g, h) == <<a, b, c, d, e, f, g, h>>

\* a frame whose first k channels carry the sample v, the others 0
LoudFrame(k, v) == [c \in 1..NCHANNELS |-> IF c <= k THEN v ELSE 0]

\* a chunk where exactly k samples carry v (k < chunk_len), the others 0
CountChunk(k, v) ==
    LET q == k \div NCHANNELS
        r == k % NCHANNELS
    IN  (IF q > 0 THEN <<[n |-> q, fr |-> LoudFrame(NCHANNELS, v)]>> ELSE <<>>)
        \o (IF r > 0 THEN <<[n |-> 1, fr |-> LoudFrame(r, v)]>> ELSE <<>>)
        \o <<[n |-> OUT_NSAMPLES - q - (IF r > 0 THEN 1 ELSE 0), fr |-> LoudFrame(0, 0)]>>

GradFrame == Frame(1, -2, 3, -4, 5, -6, 7, -8)

\* amplitude 1000 in channel 0 of every frame, 0 elsewhere
ToneChunk == <<[n |-> OUT_NSAMPLES, fr |-> LoudFrame(1, 1000)]>>

GradChunk == <<[n |-> OUT_NSAMPLES, fr |-> GradFrame]>>

\* a few frames at the ends of the int32 range among quiet ones
ExtremeChunk ==
    <<[n |-> OUT_NSAMPLES - 12, fr |-> GradFrame],
      [n |-> 12, fr |-> Frame(-1, INT32_MAX, INT32_MIN, 0, 1, INT32_MAX, -7, 5)]>>

\* 409 samples at exactly +-1100, one just below
EdgeChunk ==
    <<[n |-> 51, fr |-> LoudFrame(NCHANNELS, -1100)],
      [n |-> 1, fr |-> Frame(1100, 1099, -1099, 0, 0, 0, 0, 0)],
      [n |-> OUT_NSAMPLES - 52, fr |-> LoudFrame(0, 0)]>>

Patterns ==
    <<CountChunk(nvals_threshold, 5000), CountChunk(nvals_threshold - 1, -5000),
      CountChunk(nvals_threshold + 1, 5000), ToneChunk, GradChunk, ExtremeChunk,
      EdgeChunk>>

\* the calibration window [silence_scan_i, data_scan_i) with peak sample v
WinOf(v) ==
    <<[n |-> 100000, v |-> 0], [n |-> 1, v |-> v],
      [n |-> (data_scan_i - silence_scan_i) - 100001, v |-> -(v \div 2)]>>

\* A recording of data_scan_i + nch * chunk_len + rem words: its window and
\* its full chunks, chunk j taking pattern base + j - 1 (cyclically).  The
\* glitch before the window and the remainder after the last full chunk
\* are never read and carry no content.
RecOf(v, nch, rem, base) ==
    [len    |-> data_scan_i + nch * chunk_len + rem,
     win    |-> WinOf(v),
     chunks |-> [j \in 1..nch |-> Patterns[((base + j - 2) % Len(Patterns)) + 1]]]

\* a recording too short to hold the window
ShortRec(len) == [len |-> len, win |-> <<>>, chunks |-> <<>>]

Remainders == {0, 1, chunk_len - 1}

LenFamily ==
    {RecOf(1000, n, r, 1) : n \in 0..MaxChunks, r \in Remainders}

PatFamily ==
    {RecOf(v, n, 1, b) : v \in {-10, 1000}, n \in 1..MaxChunks, b \in 1..Len(Patterns)}

PeakFamily ==
    {RecOf(v, 1, 0, b) : v \in {0, 5, 1952257819, 1952257820, INT32_MIN}, b \in {4, 5}}

ShortFamily ==
    {ShortRec(l) : l \in {0, 1, silence_scan_i, data_scan_i - 1}}

Recordings == LenFamily \cup PatFamily \cup PeakFamily \cup ShortFamily

\* A file on disk: what open/fstat/mmap do with it, its size in bytes (a
\* trailing partial word included), its content, and what sscanf makes of
\* its name (the number of conversions and the three values, the angle in
\* 1/1000 degree, elevation and distance in 1/10).
FileOf(name, io, rec, tail, scan) ==
    [name |-> name, io |-> io, st_size |-> rec.len * 4 + tail, raw |-> rec,
     scan |-> scan, desc |-> [subangle |-> 5625, elev |-> 0, distance |-> 10]]

IoFailures == {"noopen", "nostat", "nomap"}

SilenceFocus ==
    {FileOf(<<"output-silence1", "", ".raw">>, "ok", r, t, 0) : r \in Recordings, t \in {0}}
    \cup {FileOf(<<"output-silence1", "", ".raw">>, "ok", ShortRec(0), 3, 0)}
    \cup {FileOf(<<"output-silence1", "", ".raw">>, io, RecOf(1000, 1, 1, 1), 0, 0) : io \in IoFailures}

DatasetFocus ==
    {FileOf(<<"output-05.625deg-0elev-1.0m", "", ".raw">>, "ok", r, 0, 3) : r \in Recordings}
    \cup {FileOf(<<"output-05.625deg-0elev-1.0m", "", ".raw">>, "ok", RecOf(1000, 1, 3, 2), 3, 3)}
    \cup {FileOf(<<"output-05.625deg-0elev-1.0m", "", ".raw">>, io, RecOf(1000, 1, 1, 1), 0, 3) : io \in IoFailures}
    \cup {FileOf(<<"output-xdeg-0elev-1.0m", "", ".raw">>, "ok", RecOf(1000, 1, 1, 1), 0, n) : n \in 0..2}

FillerTags == <<"a", "b", "c", "d">>

SilenceFiller(j) ==
    FileOf(<<"output-silence0", FillerTags[j], ".raw">>, "ok", RecOf(1000, 1, 1, 1), 0, 0)
DatasetFiller(j) ==
    FileOf(<<"output-50.625deg-0elev-1.0m", FillerTags[j], ".raw">>, "ok", RecOf(1000, 1, 1, 1), 0, 3)

\* the sequences <<F(1), ..., F(k)>> and <<F(k+1), ..., F(k+l)>>, k + l <= n
SilenceFillers(from, n) == {[j \in 1..k |-> SilenceFiller(from + j)] : k \in 0..n}
DatasetFillers(from, n) == {[j \in 1..k |-> DatasetFiller(from + j)] : k \in 0..n}

\* The two glob expansions of a run: at most MaxFiles files in all, at most
\* one of them from the wide catalogues.
Runs ==
    {[silence |-> a \o <<f>> \o b, dataset |-> c] :
        a \in SilenceFillers(0, 1), f \in SilenceFocus,
        b \in SilenceFillers(1, MaxFiles), c \in DatasetFillers(0, MaxFiles)}
    \cup
    {[silence |-> a, dataset |-> b \o <<f>> \o c] :
        a \in SilenceFillers(0, MaxFiles), b \in DatasetFillers(0, 1),
        f \in DatasetFocus, c \in DatasetFillers(1, MaxFiles)}
    \cup
    {[silence |-> a, dataset |-> c] :
        a \in SilenceFillers(0, MaxFiles), c \in DatasetFillers(0, MaxFiles)}

BoundedRuns == {r \in Runs : Len(r.silence) + Len(r.dataset) <= MaxFiles}

\* the values std::rand() % 100 is drawn from here
DrawValues == {0, 94, 95, 99}

\* ------------------------------------------------------------------------
\* State

VARIABLES
    exp_silence,        \* main: words of the "output-silence*.raw" expansion
    exp_dataset,        \* main: words of the "output-*deg-*elev-*m.raw" expansion
    phase,              \* main: which of its two loops runs
    i,                  \* main: the loop index
    pc,                 \* where the process is
    out,                \* the sink constructed for the current file
    m,                  \* process_raw_audio_file: the mapped buffer
    silence_max,        \* process_raw_audio_file: peak of the window
    silence_threshold,  \* process_raw_audio_file: the calibrated threshold
    chunk_i,            \* process_raw_audio_file: offset of the current chunk
    num_chunks,         \* process_raw_audio_file: chunks counted as recorded
    call,               \* the current (or last) save_chunk call
    mic_offs,           \* dataset_output::save_chunk: the rotation offset
    ret,                \* what the last save_chunk returned
    rnd,                \* save_to_file: the last draw
    submitted,          \* per file: the offsets handed to save_chunk, in order
    calls_wrote,        \* per file: the save_chunk calls that wrote a record
    opened,             \* names of the input files opened so far, in order
    stderr,             \* the error reports of fatal()
    win_pair,           \* calibration alone: two training windows
    thr_pair            \* calibration alone: the thresholds computed for them

vars == <<exp_silence, exp_dataset, phase, i, pc, out, m, silence_max,
          silence_threshold, chunk_i, num_chunks, call, mic_offs, ret, rnd,
          submitted, calls_wrote, opened, stderr, win_pair, thr_pair>>

NoSink == [kind |-> "none"]
NULL == [len |-> -1]
NoRecord == [dir |-> "none"]
NoCall ==
    [arr |-> <<>>, chunk_i |-> -1, is_silence |-> FALSE, nvals |-> -1,
     handed |-> <<>>, nwrote |-> 0, last |-> NoRecord]

Init ==
    /\ \E r \in BoundedRuns : exp_silence = r.silence /\ exp_dataset = r.dataset
    /\ phase = "silence"
    /\ i = 0
    /\ pc = "main"
    /\ out = NoSink
    /\ m = NULL
    /\ silence_max = 0
    /\ silence_threshold = 0
    /\ chunk_i = 0
    /\ num_chunks = 0
    /\ call = NoCall
    /\ mic_offs = 0
    /\ ret = FALSE
    /\ rnd = 0
    /\ submitted = <<>>
    /\ calls_wrote = 0
    /\ opened = <<>>
    /\ stderr = <<>>
    /\ win_pair = <<>>
    /\ thr_pair = <<>>

\* ------------------------------------------------------------------------
\* fatal(): report and std::abort()

\* a fatal() that reports and returns to main's loop instead of aborting
fatal_returns(s) ==
    /\ stderr' = Append(stderr, s)
    /\ pc' = "main"

fatal(s) ==
    /\ stderr' = Append(stderr, s)
    /\ pc' = "aborted"

\* ------------------------------------------------------------------------
\* main (lines 378-397)

\* silence_output out(exp.we_wordv[i], output_directory)
ConstructSilence ==
    /\ pc = "main" /\ phase = "silence" /\ i < Len(exp_silence)
    /\ out' = [kind |-> "silence", srcpath |-> exp_silence[i + 1], angle_dirs |-> <<>>]
    /\ pc' = "process"
    /\ submitted' = <<>>
    /\ calls_wrote' = 0
    /\ UNCHANGED <<win_pair, thr_pair, exp_silence, exp_dataset,
                   phase, i, m, silence_max,
                   silence_threshold, chunk_i, num_chunks, call, mic_offs, ret,
                   rnd, opened, stderr>>

\* sprintf("%1.3f", subangle + mic_offs * (360.0 / NCHANNELS)) / "%1.1f" / "%1.1f"
angle_dir(desc, mic) ==
    [angle |-> desc.subangle + mic * (360000 \div NCHANNELS),
     elev |-> desc.elev, dist |-> desc.distance]

\* dataset_output out(exp.we_wordv[i], output_directory): the constructor
\* parses the file name (fatal unless sscanf converts all three) and
\* precomputes the angle directories.
ConstructDataset ==
    /\ pc = "main" /\ phase = "dataset" /\ i < Len(exp_dataset)
    /\ LET f == exp_dataset[i + 1]
       IN  IF f.scan # 3
           THEN /\ fatal("invalid filename")
                /\ UNCHANGED <<out, submitted, calls_wrote>>
           ELSE /\ out' = [kind |-> "dataset", srcpath |-> f,
                           angle_dirs |-> [k \in 1..NCHANNELS |-> angle_dir(f.desc, k - 1)]]
                /\ submitted' = <<>>
                /\ calls_wrote' = 0
                /\ pc' = "process"
                /\ stderr' = stderr
    /\ UNCHANGED <<win_pair, thr_pair, exp_silence, exp_dataset,
                   phase, i, m, silence_max,
                   silence_threshold, chunk_i, num_chunks, call, mic_offs, ret,
                   rnd, opened>>

\* the first loop is over: wordfree, the second wordexp
EndSilence ==
    /\ pc = "main" /\ phase = "silence" /\ i = Len(exp_silence)
    /\ phase' = "dataset"
    /\ i' = 0
    /\ UNCHANGED <<win_pair, thr_pair, exp_silence, exp_dataset,
                   pc, out, m, silence_max,
                   silence_threshold, chunk_i, num_chunks, call, mic_offs, ret,
                   rnd, submitted, calls_wrote, opened, stderr>>

\* return EXIT_SUCCESS
Exit ==
    /\ pc = "main" /\ phase = "dataset" /\ i = Len(exp_dataset)
    /\ pc' = "done"
    /\ UNCHANGED <<win_pair, thr_pair, exp_silence, exp_dataset,
                   phase, i, out, m, silence_max,
                   silence_threshold, chunk_i, num_chunks, call, mic_offs, ret,
                   rnd, submitted, calls_wrote, opened, stderr>>

\* ------------------------------------------------------------------------
\* s32le_buf_t::open (lines 79-99)

\* off_t len = st_size - st_size % sizeof(int32_t); the buffer holds len / 4 words
words_of(st_size) == (st_size - (st_size % 4)) \div 4

\* The failure open() ends in, or "ok".  mmap of a zero length fails (EINVAL).
open_result(f) ==
    IF f.io = "noopen" THEN "failed to open file"
    ELSE IF f.io = "nostat" THEN "failed to fstat file"
    ELSE IF f.io = "nomap" \/ words_of(f.st_size) = 0 THEN "failed to mmap file"
    ELSE "ok"

\* auto m = s32le_buf_t::open(fpath)
Open ==
    /\ pc = "process"
    /\ LET f == out.srcpath
           r == open_result(f)
       IN  IF r # "ok"
           THEN /\ fatal(r)
                /\ UNCHANGED <<m, opened>>
           ELSE /\ m' = [len |-> words_of(f.st_size), raw |-> f.raw]
                /\ opened' = Append(opened, f.name)
                /\ pc' = "calibrate"
                /\ stderr' = stderr
    /\ UNCHANGED <<win_pair, thr_pair, exp_silence, exp_dataset,
                   phase, i, out, silence_max,
                   silence_threshold, chunk_i, num_chunks, call, mic_offs, ret,
                   rnd, submitted, calls_wrote>>

\* ------------------------------------------------------------------------
\* process_raw_audio_file (lines 301-348)

\* the length test with > for >=
too_short_strict(len) == silence_scan_i > len \/ data_scan_i > len

\* if (silence_scan_i >= m->len || data_scan_i >= m->len) fatal(...)
too_short(len) == silence_scan_i >= len \/ data_scan_i >= len

Calibrate ==
    /\ pc = "calibrate"
    /\ IF too_short(m.len)
       THEN /\ fatal("input file is too short")
            /\ UNCHANGED <<silence_max, silence_threshold, chunk_i>>
       ELSE /\ silence_max' = silence_max_of(m.raw.win)
            /\ silence_threshold' \in silence_threshold_of(silence_max')
            /\ chunk_i' = data_scan_i
            /\ pc' = "loop"
            /\ stderr' = stderr
    /\ num_chunks' = 0
    /\ UNCHANGED <<win_pair, thr_pair, exp_silence, exp_dataset,
                   phase, i, out, m, call, mic_offs,
                   ret, rnd, submitted, calls_wrote, opened>>

\* the loop condition with < for <=
loop_cond_strict(ci, len) == ci < len - chunk_len

\* the loop condition: chunk_i <= (m->len - chunk_len)
loop_cond(ci, len) == ci <= len - chunk_len

\* auto chunk = &m->raw[chunk_i]: the chunk_len words from chunk_i on; past
\* the last full chunk of the buffer there is nothing to read
OutOfBounds == <<>>
chunk_at(buf, ci) ==
    LET j == ((ci - data_scan_i) \div chunk_len) + 1
    IN  IF j \in 1..Len(buf.raw.chunks) THEN buf.raw.chunks[j] ELSE OutOfBounds

\* one iteration up to the call of out.save_chunk(chunk, chunk_i, is_silence)
LoopIter ==
    /\ pc = "loop"
    /\ loop_cond(chunk_i, m.len)
    /\ LET chunk == chunk_at(m, chunk_i)
           nvals == count_if(chunk, silence_threshold)
       IN  call' = [arr |-> chunk, chunk_i |-> chunk_i,
                    is_silence |-> is_silence_of(nvals), nvals |-> nvals,
                    handed |-> <<>>, nwrote |-> 0, last |-> NoRecord]
    /\ submitted' = Append(submitted, chunk_i)
    /\ pc' = "save_chunk"
    /\ UNCHANGED <<win_pair, thr_pair, exp_silence, exp_dataset,
                   phase, i, out, m, silence_max,
                   silence_threshold, chunk_i, num_chunks, mic_offs, ret, rnd,
                   calls_wrote, opened, stderr>>

\* if (out.save_chunk(...)) num_chunks++;  chunk_i += chunk_len
LoopAdvance ==
    /\ pc = "returned"
    /\ num_chunks' = IF ret THEN num_chunks + 1 ELSE num_chunks
    /\ calls_wrote' = IF call.nwrote > 0 THEN calls_wrote + 1 ELSE calls_wrote
    /\ chunk_i' = chunk_i + chunk_len
    /\ pc' = "loop"
    /\ UNCHANGED <<win_pair, thr_pair, exp_silence, exp_dataset,
                   phase, i, out, m, silence_max,
                   silence_threshold, call, mic_offs, ret, rnd, submitted,
                   opened, stderr>>

\* the loop ends; m and out go out of scope (munmap), main's loop steps on
ProcessReturn ==
    /\ pc = "loop"
    /\ ~loop_cond(chunk_i, m.len)
    /\ m' = NULL
    /\ out' = NoSink
    /\ i' = i + 1
    /\ pc' = "main"
    /\ UNCHANGED <<win_pair, thr_pair, exp_silence, exp_dataset,
                   phase, silence_max,
                   silence_threshold, chunk_i, num_chunks, call, mic_offs, ret,
                   rnd, submitted, calls_wrote, opened, stderr>>

\* ------------------------------------------------------------------------
\* base_output::save_to_file (lines 134-149)

\* the drop test with <= for <
dropped_incl(r) == r <= OUT_DROP_PERCENT

\* if (rnd < OUT_DROP_PERCENT) return;
dropped(r) == r < OUT_DROP_PERCENT

\* srcpath.filename().string() + "_" + std::to_string(chunk_i)
fname_of(sink, ci) == <<sink.srcpath.name, "_", ci>>

\* save_to_file(path, arr, chunk_i), then on to next_pc: the draw, and for a
\* kept chunk the write of the record, fatal if the file cannot be opened
save_to_file(path, arr, next_pc) ==
    \E r \in DrawValues, can_open \in BOOLEAN :
        /\ rnd' = r
        /\ IF dropped(r)
           THEN /\ can_open
                /\ call' = [call EXCEPT !.handed = Append(@, [dir |-> path, data |-> arr])]
                /\ pc' = next_pc
                /\ stderr' = stderr
           ELSE IF can_open
           THEN /\ call' = [call EXCEPT
                              !.handed = Append(@, [dir |-> path, data |-> arr]),
                              !.nwrote = @ + 1,
                              !.last = [dir |-> path,
                                        fname |-> fname_of(out, call.chunk_i),
                                        data |-> arr]]
                /\ pc' = next_pc
                /\ stderr' = stderr
           ELSE /\ call' = [call EXCEPT !.handed = Append(@, [dir |-> path, data |-> arr])]
                /\ fatal("Failed to open")

\* ------------------------------------------------------------------------
\* silence_output::save_chunk (lines 162-169)

SilenceSaveChunk ==
    /\ pc = "save_chunk" /\ out.kind = "silence"
    /\ save_to_file("silence", call.arr, "returned")
    /\ ret' = IF pc' = "aborted" THEN ret ELSE TRUE
    /\ UNCHANGED <<win_pair, thr_pair, exp_silence, exp_dataset,
                   phase, i, out, m, silence_max,
                   silence_threshold, chunk_i, num_chunks, mic_offs, submitted,
                   calls_wrote, opened>>

\* ------------------------------------------------------------------------
\* dataset_output::save_chunk (lines 214-252)

\* dataset_output::save_chunk without its silence test
dataset_skips_never(is_silence) == FALSE

\* if (is_silence) return false;
dataset_skips(is_silence) == is_silence

\* the last rotation offset of the loop, exclusive
variants_end == NCHANNELS

DatasetSaveChunk ==
    /\ pc = "save_chunk" /\ out.kind = "dataset"
    /\ IF dataset_skips(call.is_silence)
       THEN /\ ret' = FALSE
            /\ pc' = "returned"
            /\ mic_offs' = mic_offs
       ELSE /\ mic_offs' = 0
            /\ pc' = "variant"
            /\ ret' = ret
    /\ UNCHANGED <<win_pair, thr_pair, exp_silence, exp_dataset,
                   phase, i, out, m, silence_max,
                   silence_threshold, chunk_i, num_chunks, call, rnd, submitted,
                   calls_wrote, opened, stderr>>

\* one pass of the mic_offs loop: rotate, normalise, save_to_file
DatasetVariant ==
    /\ pc = "variant" /\ mic_offs < variants_end
    /\ \E ub \in SignedOverflowUB :
         IF variant_overflows(call.arr, mic_offs) /\ ub = "trap"
         THEN /\ stderr' = Append(stderr, "signed integer overflow")
              /\ pc' = "aborted"
              /\ UNCHANGED <<call, rnd, mic_offs>>
         ELSE /\ save_to_file(out.angle_dirs[mic_offs + 1],
                              variant(call.arr, mic_offs), "variant")
              /\ mic_offs' = IF pc' = "aborted" THEN mic_offs ELSE mic_offs + 1
    /\ UNCHANGED <<win_pair, thr_pair, exp_silence, exp_dataset,
                   phase, i, out, m, silence_max,
                   silence_threshold, chunk_i, num_chunks, ret, submitted,
                   calls_wrote, opened>>

\* return true
DatasetReturn ==
    /\ pc = "variant" /\ mic_offs >= variants_end
    /\ ret' = TRUE
    /\ pc' = "returned"
    /\ UNCHANGED <<win_pair, thr_pair, exp_silence, exp_dataset,
                   phase, i, out, m, silence_max,
                   silence_threshold, chunk_i, num_chunks, call, mic_offs, rnd,
                   submitted, calls_wrote, opened, stderr>>

\* ------------------------------------------------------------------------

Next ==
    \/ ConstructSilence
    \/ ConstructDataset
    \/ EndSilence
    \/ Exit
    \/ Open
    \/ Calibrate
    \/ LoopIter
    \/ LoopAdvance
    \/ ProcessReturn
    \/ SilenceSaveChunk
    \/ DatasetSaveChunk
    \/ DatasetVariant
    \/ DatasetReturn

Spec == Init /\ [][Next]_vars

\* ------------------------------------------------------------------------
\* Properties

\* the file the current sink was constructed for, and its length in words
cur_file == out.srcpath
cur_len == words_of(cur_file.st_size)
in_save_chunk == pc \in {"save_chunk", "variant", "returned"}
last_error == stderr[Len(stderr)]

\* C1: Directional Sink.  A chunk submitted as Silence has nothing handed to
\* the write step and no record written; a chunk submitted as Signal has,
\* when save_chunk returns, exactly NCHANNELS Variants handed to the write
\* step, the k-th (rotation offset k - 1) for angle directory k - 1, and
\* while the call runs the Variants handed so far are those of offsets
\* 0 .. mic_offs - 1 in order.
C1_DirectionalSink ==
    (out.kind = "dataset" /\ pc \in {"variant", "returned"}) =>
        /\ call.is_silence =>
              /\ pc = "returned"
              /\ call.handed = <<>>
              /\ call.nwrote = 0
              /\ call.last = NoRecord
        /\ ~call.is_silence =>
              /\ pc = "variant" => Len(call.handed) = mic_offs
              /\ pc = "returned" => Len(call.handed) = NCHANNELS
              /\ Len(call.handed) <= NCHANNELS
              /\ call.nwrote <= Len(call.handed)
              /\ \A k \in 1..Len(call.handed) :
                    call.handed[k].dir =
                        [angle |-> cur_file.desc.subangle + (k - 1) * 45000,
                         elev |-> cur_file.desc.elev,
                         dist |-> cur_file.desc.distance]

C1_Witness ==
    /\ out.kind = "dataset" /\ pc = "returned" /\ ~call.is_silence
    /\ Len(call.handed) = NCHANNELS
    /\ call.nwrote \in 1..(NCHANNELS - 1)

\* C2: save_chunk returns true if and only if the call wrote at least one
\* record, and the per-file count of recorded chunks counts only the calls
\* that wrote a record.
C2_TrueIffWritten ==
    /\ pc = "returned" => (ret <=> call.nwrote >= 1)
    /\ pc = "loop" => num_chunks = calls_wrote

\* C3: a chunk is labelled Silence exactly when the number of its samples
\* at or above the threshold is >= ceil(F * valid_fraction / 100) = 410.
CeilCutoff == (chunk_len * VALID_SAMPLES_PERCENT + 99) \div 100
C3_CeilCutoff ==
    (pc = "save_chunk" /\ call.arr # OutOfBounds) =>
        /\ call.nvals = count_if(chunk_at(m, call.chunk_i), silence_threshold)
        /\ call.is_silence <=> call.nvals >= CeilCutoff

\* C4: the offsets submitted for a file are data_scan_i, data_scan_i + F,
\* data_scan_i + 2F, ... in order; every submitted chunk lies inside the
\* buffer; when the file is done their number is floor((len - data_scan_i)
\* / F): the loop stops exactly when fewer than F words remain.
offsets_regular ==
    \A k \in 1..Len(submitted) : submitted[k] = data_scan_i + (k - 1) * chunk_len
done_file == IF phase = "silence" THEN exp_silence[i] ELSE exp_dataset[i]
C4_ChunkOffsets ==
    /\ (pc \in {"loop", "save_chunk", "variant", "returned"}) =>
          /\ offsets_regular
          /\ \A k \in 1..Len(submitted) :
                submitted[k] >= data_scan_i /\ submitted[k] + chunk_len <= m.len
    /\ (pc = "main" /\ i > 0) =>
          /\ offsets_regular
          /\ Len(submitted) =
                (words_of(done_file.st_size) - data_scan_i) \div chunk_len

C4_Witness ==
    /\ pc = "main" /\ i > 0
    /\ Len(submitted) = 2
    /\ words_of(done_file.st_size) = data_scan_i + 2 * chunk_len

\* C5: in every Variant handed to the write step, for every frame, channel
\* 0 is the input sample that rotation r places there (input channel
\* (0 - r) mod NCHANNELS) and channel c >= 1 is (input channel (c - r) mod
\* NCHANNELS) minus that sample, for all int32 sample values; the input
\* chunk is left unchanged.
src_channel(c, r) == ((c - r + NCHANNELS) % NCHANNELS) + 1
C5_Differential ==
    (out.kind = "dataset" /\ pc \in {"variant", "returned"} /\ ~call.is_silence) =>
        /\ call.arr = chunk_at(m, call.chunk_i)
        /\ \A k \in 1..Len(call.handed) :
              LET v == call.handed[k].data
              IN  /\ Len(v) = Len(call.arr)
                  /\ \A j \in 1..Len(v) :
                        LET in == call.arr[j].fr
                            o  == v[j].fr
                            z  == in[src_channel(0, k - 1)]
                        IN  /\ v[j].n = call.arr[j].n
                            /\ o[1] = z
                            /\ \A c \in 2..NCHANNELS :
                                  LET a == in[src_channel(c - 1, k - 1)]
                                  IN  ~SubOverflows(a, z) /\ o[c] = a - z

\* C7 as stated: a file of at most data_scan_i words (that opens) fails
\* with the "too short" error, nothing of it classified, submitted or
\* written; a longer one does not fail calibration.
C7_TooShortFails ==
    /\ (pc \in {"loop", "save_chunk", "variant", "returned"}) => cur_len > data_scan_i
    /\ (out.kind # "none" /\ cur_file.io = "ok" /\ cur_len <= data_scan_i) =>
          /\ pc \in {"process", "calibrate", "aborted"}
          /\ submitted = <<>> /\ calls_wrote = 0
          /\ pc = "aborted" => last_error = "input file is too short"
    /\ (out.kind # "none" /\ cur_len > data_scan_i /\ pc = "aborted") =>
          last_error # "input file is too short"

\* C7 amended: a file of 1 .. data_scan_i words fails with the "too short"
\* error; a file holding no whole word fails before that, at the mapping;
\* in both cases nothing of it is classified, submitted or written; a
\* longer file does not fail calibration.
C7_TooShortOrEmptyFails ==
    /\ (pc \in {"loop", "save_chunk", "variant", "returned"}) => cur_len > data_scan_i
    /\ (out.kind # "none" /\ cur_file.io = "ok" /\ cur_len <= data_scan_i) =>
          /\ pc \in {"process", "calibrate", "aborted"}
          /\ submitted = <<>> /\ calls_wrote = 0
          /\ pc = "calibrate" => cur_len > 0
          /\ pc = "aborted" =>
                last_error = (IF cur_len = 0 THEN "failed to mmap file"
                              ELSE "input file is too short")
    /\ (out.kind # "none" /\ cur_len > data_scan_i /\ pc = "aborted") =>
          last_error # "input file is too short"

C7_Witness ==
    /\ pc = "aborted" /\ out.kind # "none" /\ cur_file.io = "ok"
    /\ cur_len = data_scan_i
    /\ last_error = "input file is too short"

\* C8: with a near-zero calibration window, a chunk with amplitude 1000 in
\* channel 0 and 0 elsewhere is classified Signal, the Directional Sink
\* accepts it, and its Variant for rotation offset 0 has 1000 in channel 0
\* and -1000 in every other channel.
ToneVariant0 == <<[n |-> OUT_NSAMPLES, fr |-> [c \in 1..NCHANNELS |-> IF c = 1 THEN 1000 ELSE -1000]]>>
C8_ToneIsSignal ==
    (out.kind = "dataset" /\ in_save_chunk /\ call.arr = ToneChunk
        /\ silence_max \in 1..5 /\ call.nvals = OUT_NSAMPLES) =>
        /\ ~call.is_silence
        /\ pc = "returned" => (ret /\ call.handed[1].data = ToneVariant0)

\* C9: Silence Sink.  For either label the chunk reaches the write step as
\* it is in the buffer; a record is written if and only if the draw is >=
\* OUT_DROP_PERCENT, and then it holds the chunk's samples unmodified, in
\* directory "silence", named <file name>_<chunk offset>.
C9_SilenceSink ==
    (out.kind = "silence" /\ pc = "returned") =>
        LET ci == submitted[Len(submitted)]
            chunk == chunk_at(m, ci)
        IN  /\ ret
            /\ call.handed = <<[dir |-> "silence", data |-> chunk]>>
            /\ call.nwrote = (IF rnd >= OUT_DROP_PERCENT THEN 1 ELSE 0)
            /\ call.last = (IF rnd >= OUT_DROP_PERCENT
                            THEN [dir |-> "silence",
                                  fname |-> <<cur_file.name, "_", ci>>,
                                  data |-> chunk]
                            ELSE NoRecord)

C9_Witness ==
    /\ out.kind = "silence" /\ pc = "returned"
    /\ ~call.is_silence
    /\ rnd = OUT_DROP_PERCENT
    /\ call.nwrote = 1

\* C10: files are processed one at a time, in order (a file is opened only
\* when no buffer is mapped, and the mapped buffer is the current file's),
\* and once fatal() has reported an error nothing changes any more: no
\* chunk is classified, no record written, no file opened.
all_files == exp_silence \o exp_dataset
C10_FatalStops ==
    /\ [](m # NULL => (m.raw = cur_file.raw /\ opened[Len(opened)] = cur_file.name))
    /\ [](\A k \in 1..Len(opened) : opened[k] = all_files[k].name)
    /\ [][/\ stderr # <<>> => UNCHANGED vars
          /\ opened' # opened => (m = NULL /\ Len(opened') = Len(opened) + 1)]_vars

C10_Witness ==
    /\ pc = "aborted"
    /\ stderr = <<"Failed to open">>
    /\ call.nwrote >= 1
    /\ Len(opened) < Len(all_files)

\* ------------------------------------------------------------------------
\* Calibration alone: two windows, calibrated one after the other

CalibSamples ==
    {0, 1, 2, -5, 10, 1000, -2000, 976128910, 977272827, 1952257819,
     1952257820, INT32_MIN}

InitCalib ==
    /\ win_pair \in {<<WinOf(a), WinOf(b)>> : a \in CalibSamples, b \in CalibSamples}
    /\ thr_pair = <<>>
    /\ exp_silence = <<>>
    /\ exp_dataset = <<>>
    /\ phase = "silence"
    /\ i = 0
    /\ pc = "calib"
    /\ out = NoSink
    /\ m = NULL
    /\ silence_max = 0
    /\ silence_threshold = 0
    /\ chunk_i = 0
    /\ num_chunks = 0
    /\ call = NoCall
    /\ mic_offs = 0
    /\ ret = FALSE
    /\ rnd = 0
    /\ submitted = <<>>
    /\ calls_wrote = 0
    /\ opened = <<>>
    /\ stderr = <<>>

\* lines 307-309 on the next window of the pair
CalibrateAlone ==
    /\ pc = "calib"
    /\ Len(thr_pair) < Len(win_pair)
    /\ LET w == win_pair[Len(thr_pair) + 1]
       IN  \E t \in silence_threshold_of(silence_max_of(w)) :
              thr_pair' = Append(thr_pair, [negpeak |-> NegLabs(max_element(w)), thr |-> t])
    /\ UNCHANGED <<win_pair, exp_silence, exp_dataset, phase, i, pc, out, m,
                   silence_max, silence_threshold, chunk_i, num_chunks, call,
                   mic_offs, ret, rnd, submitted, calls_wrote, opened,
                   stderr>>

NextCalib == CalibrateAlone

SpecCalib == InitCalib /\ [][NextCalib]_vars

\* C6: the threshold is non-decreasing in the peak absolute sample of the
\* window, and a window with twice the peak yields exactly twice the
\* threshold.
C6_MonotoneDoubling ==
    Len(thr_pair) = 2 =>
        LET a == thr_pair[1]
            b == thr_pair[2]
        IN  /\ a.negpeak >= b.negpeak => a.thr <= b.thr
            /\ (a.negpeak >= -1073741824 /\ b.negpeak = 2 * a.negpeak) =>
                  (a.thr >= 0 /\ b.thr >= a.thr /\ b.thr - a.thr = a.thr)

====
